---------------------------- MODULE Spec2Model ----------------------------
(***************************************************************************)
(* Model of caddy-lua's template interpreter (src/lua.go): the scan that   *)
(* copies literal bytes to the destination writer, collects the bytes of   *)
(* each <?lua ... ?> region, hands them to the Lua session and copies what *)
(* the session printed to the destination writer.                          *)
(*                                                                         *)
(* Bytes are one-character strings.  Go indexes slices from 0 and TLA+     *)
(* sequences from 1: the model keeps the code's 0-based offsets (i, start) *)
(* and reads slice[k] as slice[k + 1].                                     *)
(*                                                                         *)
(* The Lua library is outside the repository.  A chunk is executed one     *)
(* byte at a time: "p" is the statement  n = n + 1; print(n)  over a       *)
(* global n of the session, "e" is  error("boom"), every other byte is     *)
(* blank.                                                                   *)
(***************************************************************************)
EXTENDS Integers, Sequences, FiniteSets, TLC

VARIABLES
    src,      \* the document handed to Interpret
    out,      \* the bytes the destination writer has accepted
    L,        \* the Lua session: state, print bindings, running chunks, global n
    luaOut,   \* bytes.Buffer filled by the print binding
    luaIn,    \* bytes.Buffer of the pending script
    inCode,   \* scanner mode
    line,     \* line counter
    i,        \* loop index
    pc,       \* position of the call: start, scan, doString, doStringEOF, done
    ip,       \* offset of the next statement of the chunk being executed
    ret,      \* the value Interpret returned
    stdout,   \* what the process wrote to its standard output
    calls,    \* the DoString calls made, in order
    writes,   \* the Write calls made on the destination writer, in order
    other,    \* a second Interpret call of the process, while it is not running
    http      \* the request ServeHTTP is handling, and its response

vars == <<src, out, L, luaOut, luaIn, inCode, line, i, pc, ip, ret, stdout,
          calls, writes, other, http>>

-----------------------------------------------------------------------------
(* Bounds and inputs *)

\* Longest document, counted in pieces of DocPieces.
MaxPieces == 4

NL == "\n"

startSeq == <<"<", "?", "l", "u", "a">>

\* The pieces documents are assembled from: both markers, a truncated open
\* marker, a lone "?", a line terminator, the two statements, and a whole
\* region that prints.
DocPieces ==
    { startSeq, <<"?", ">">>, <<"<", "?", "l", "u">>, <<"?">>, <<NL>>,
      <<"p">>, <<"e">>, startSeq \o <<"p", "?", ">">> }

RECURSIVE DocsUpTo(_)
DocsUpTo(k) ==
    IF k = 0 THEN { <<>> }
    ELSE LET shorter == DocsUpTo(k - 1)
         IN  shorter \cup { d \o t : d \in shorter, t \in DocPieces }

Documents == DocsUpTo(MaxPieces)

-----------------------------------------------------------------------------
(* Marker scanner *)

\* isStart with the comparison loop one byte short.
isStart_FourBytes(start, slice) ==
    IF start + 5 >= Len(slice) THEN FALSE
    ELSE \A k \in 0..3 : startSeq[k + 1] = slice[start + k + 1]

\* isStart taking an open marker that ends the slice.
isStart_AtEnd(start, slice) ==
    IF start + 4 >= Len(slice) THEN FALSE
    ELSE \A k \in 0..4 : startSeq[k + 1] = slice[start + k + 1]

\* isStart, lua.go:160-170.
isStart(start, slice) ==
    IF start + 5 >= Len(slice) THEN FALSE
    ELSE \A k \in 0..4 : startSeq[k + 1] = slice[start + k + 1]

\* isEnd taking a "?" that is the last byte of the slice for a close marker.
isEnd_TruncatedAtEnd(start, slice) ==
    IF start >= Len(slice) THEN FALSE
    ELSE IF start + 1 >= Len(slice) THEN slice[start + 1] = "?"
    ELSE slice[start + 1] = "?" /\ slice[start + 2] = ">"

\* isEnd, lua.go:172-180.
isEnd(start, slice) ==
    IF start + 1 >= Len(slice) THEN FALSE
    ELSE slice[start + 1] = "?" /\ slice[start + 2] = ">"

-----------------------------------------------------------------------------
(* The print binding and the values scripts print *)

Digits == <<"0", "1", "2", "3", "4", "5", "6", "7", "8", "9">>

\* LValue.String() of a non-negative integral number.
RECURSIVE String(_)
String(n) ==
    IF n < 10 THEN << Digits[n + 1] >>
    ELSE String(n \div 10) \o << Digits[(n % 10) + 1] >>

\* printArgs without the test i != top: a space after every argument.
RECURSIVE printArgs_SpaceAfterEach(_, _, _)
printArgs_SpaceAfterEach(buf, args, k) ==
    IF k > Len(args) THEN buf
    ELSE printArgs_SpaceAfterEach(buf \o args[k] \o <<" ">>, args, k + 1)

\* The loop of the print binding, lua.go:101-106, from argument k on.
RECURSIVE printArgs(_, _, _)
printArgs(buf, args, k) ==
    IF k > Len(args) THEN buf
    ELSE printArgs(buf \o args[k] \o (IF k # Len(args) THEN <<" ">> ELSE <<>>),
                   args, k + 1)

\* The print binding, lua.go:99-109: the buffer after print(args).
print(buf, args) == printArgs(buf, args, 1) \o << NL >>

ErrMsg == "boom"

Nil == [kind |-> "nil"]
LuaError(ln, msg) == [kind |-> "lua", line |-> ln, msg |-> msg]
WriteError == [kind |-> "write"]

\* No second call, and a call of Interpret that is not made by ServeHTTP.
NoCall == [id |-> 0]
NoRequest == [stage |-> "none"]

\* What Write may answer: ServeHTTP passes a bytes.Buffer (lua.go:73-74),
\* whose Write returns no error; any other io.Writer may fail.
WriteResults == IF http.stage = "none" THEN BOOLEAN ELSE {TRUE}

-----------------------------------------------------------------------------
(* Interpret *)

Init ==
    /\ src \in Documents
    /\ out = <<>>
    /\ L = [state |-> "none", prints |-> 0, running |-> 0, n |-> 0]
    /\ luaOut = <<>>
    /\ luaIn = <<>>
    /\ inCode = FALSE
    /\ line = 1
    /\ i = 0
    /\ pc = "start"
    /\ ip = 0
    /\ ret = [kind |-> "none"]
    /\ stdout = <<>>
    /\ calls = <<>>
    /\ writes = <<>>
    /\ other = NoCall
    /\ http = NoRequest

\* lineAt counting the line terminators of literal text only.
lineAt_LiteralOnly(k) == IF ~inCode /\ src[k + 1] = NL THEN line + 1 ELSE line

\* lua.go:114-116, the line counter after the test of src[i].
lineAt(k) == IF src[k + 1] = NL THEN line + 1 ELSE line

\* defer L.Close(), lua.go:92.
Closed == [L EXCEPT !.state = "closed"]

\* The session when DoString is entered and when it has returned.
Entered == [L EXCEPT !.running = @ + 1]
Returned(S) == [S EXCEPT !.running = @ - 1]

\* lua.go:91-112: the session, the print binding, the scanner's variables.
NewState ==
    /\ pc = "start"
    /\ L' = [state |-> "open", prints |-> 1, running |-> 0, n |-> 0]
    /\ pc' = "scan"
    /\ UNCHANGED <<src, out, luaOut, luaIn, inCode, line, i, ip, ret, stdout,
                   calls, writes>>
    /\ UNCHANGED <<other, http>>

\* OpenMarker tested in script regions too.
OpenMarker_InAnyMode ==
    /\ pc = "scan" /\ i < Len(src)
    /\ isStart(i, src)
    /\ line' = lineAt(i)
    /\ i' = i + 4 + 1
    /\ inCode' = TRUE
    /\ UNCHANGED <<src, out, L, luaOut, luaIn, pc, ip, ret, stdout, calls, writes>>
    /\ UNCHANGED <<other, http>>

\* lua.go:134-136: an open marker in literal mode.
OpenMarker ==
    /\ pc = "scan" /\ i < Len(src) /\ ~inCode
    /\ isStart(i, src)
    /\ line' = lineAt(i)
    /\ i' = i + 4 + 1
    /\ inCode' = TRUE
    /\ UNCHANGED <<src, out, L, luaOut, luaIn, pc, ip, ret, stdout, calls, writes>>
    /\ UNCHANGED <<other, http>>

\* lua.go:137-139: a literal byte is written; a write error is returned.
CopyByte ==
    /\ pc = "scan" /\ i < Len(src) /\ ~inCode
    /\ ~isStart(i, src)
    /\ line' = lineAt(i)
    /\ \E ok \in WriteResults :
         /\ writes' = Append(writes, [at |-> i, data |-> << src[i + 1] >>, ok |-> ok])
         /\ IF ok
            THEN /\ out' = Append(out, src[i + 1])
                 /\ i' = i + 1
                 /\ UNCHANGED <<pc, ret, L>>
            ELSE /\ pc' = "done"
                 /\ ret' = WriteError
                 /\ L' = Closed
                 /\ UNCHANGED <<out, i>>
    /\ UNCHANGED <<src, luaOut, luaIn, inCode, ip, stdout, calls>>
    /\ UNCHANGED <<other, http>>

\* lua.go:130-132: a byte of the script is kept.
AppendCode ==
    /\ pc = "scan" /\ i < Len(src) /\ inCode
    /\ ~isEnd(i, src)
    /\ line' = lineAt(i)
    /\ luaIn' = Append(luaIn, src[i + 1])
    /\ i' = i + 1
    /\ UNCHANGED <<src, out, L, luaOut, inCode, pc, ip, ret, stdout, calls, writes>>
    /\ UNCHANGED <<other, http>>

\* CloseMarker without the i++ of lua.go:120.
CloseMarker_NoSkip ==
    /\ pc = "scan" /\ i < Len(src) /\ inCode
    /\ isEnd(i, src)
    /\ line' = lineAt(i)
    /\ i' = i
    /\ calls' = Append(calls, [chunk |-> luaIn, at |-> i, line |-> line'])
    /\ L' = Entered
    /\ pc' = "doString"
    /\ ip' = 0
    /\ UNCHANGED <<src, out, luaOut, luaIn, inCode, ret, stdout, writes>>
    /\ UNCHANGED <<other, http>>

\* lua.go:118-121: a close marker; the pending script goes to DoString.
CloseMarker ==
    /\ pc = "scan" /\ i < Len(src) /\ inCode
    /\ isEnd(i, src)
    /\ line' = lineAt(i)
    /\ i' = i + 1
    /\ calls' = Append(calls, [chunk |-> luaIn, at |-> i, line |-> line'])
    /\ L' = Entered
    /\ pc' = "doString"
    /\ ip' = 0
    /\ UNCHANGED <<src, out, luaOut, luaIn, inCode, ret, stdout, writes>>
    /\ UNCHANGED <<other, http>>

\* lua.go:145-147: the document ended inside a script that is not empty.
FlushAtEOF ==
    /\ pc = "scan" /\ i >= Len(src)
    /\ inCode /\ Len(luaIn) > 0
    /\ stdout' = Append(stdout, <<"sending to Lua interpreter: ", luaIn>>)
    /\ calls' = Append(calls, [chunk |-> luaIn, at |-> i, line |-> line])
    /\ L' = Entered
    /\ pc' = "doStringEOF"
    /\ ip' = 0
    /\ UNCHANGED <<src, out, luaOut, luaIn, inCode, line, i, ret, writes>>
    /\ UNCHANGED <<other, http>>

\* lua.go:145, 155: the document ended with nothing left to run.
ReturnAtEOF ==
    /\ pc = "scan" /\ i >= Len(src)
    /\ ~(inCode /\ Len(luaIn) > 0)
    /\ pc' = "done"
    /\ ret' = Nil
    /\ L' = Closed
    /\ UNCHANGED <<src, out, luaOut, luaIn, inCode, line, i, ip, stdout, calls, writes>>
    /\ UNCHANGED <<other, http>>

Executing == pc \in {"doString", "doStringEOF"}

\* L.DoString runs the statement  n = n + 1; print(n).
LuaPrint ==
    /\ Executing /\ ip < Len(luaIn)
    /\ luaIn[ip + 1] = "p"
    /\ L' = [L EXCEPT !.n = @ + 1]
    /\ luaOut' = print(luaOut, << String(L.n + 1) >>)
    /\ ip' = ip + 1
    /\ UNCHANGED <<src, out, luaIn, inCode, line, i, pc, ret, stdout, calls, writes>>
    /\ UNCHANGED <<other, http>>

\* L.DoString passes a blank byte.
LuaBlank ==
    /\ Executing /\ ip < Len(luaIn)
    /\ luaIn[ip + 1] \notin {"p", "e"}
    /\ ip' = ip + 1
    /\ UNCHANGED <<src, out, L, luaOut, luaIn, inCode, line, i, pc, ret, stdout,
                   calls, writes>>
    /\ UNCHANGED <<other, http>>

\* LuaFail with the output buffer written before the error is returned.
LuaFail_WritesOutput ==
    /\ Executing /\ ip < Len(luaIn)
    /\ luaIn[ip + 1] = "e"
    /\ pc' = "done"
    /\ ret' = LuaError(line, ErrMsg)
    /\ L' = Returned(Closed)
    /\ writes' = Append(writes, [at |-> i, data |-> luaOut, ok |-> TRUE])
    /\ out' = out \o luaOut
    /\ UNCHANGED <<src, luaOut, luaIn, inCode, line, i, ip, stdout, calls>>
    /\ UNCHANGED <<other, http>>

\* LuaFail with L.Close() called only at the end of Interpret, not deferred.
LuaFail_NoClose ==
    /\ Executing /\ ip < Len(luaIn)
    /\ luaIn[ip + 1] = "e"
    /\ pc' = "done"
    /\ ret' = LuaError(line, ErrMsg)
    /\ L' = Returned(L)
    /\ UNCHANGED <<src, out, luaOut, luaIn, inCode, line, i, ip, stdout, calls, writes>>
    /\ UNCHANGED <<other, http>>

\* lua.go:121-125 and 147-151: DoString fails, Interpret returns the error.
LuaFail ==
    /\ Executing /\ ip < Len(luaIn)
    /\ luaIn[ip + 1] = "e"
    /\ pc' = "done"
    /\ ret' = LuaError(line, ErrMsg)
    /\ L' = Returned(Closed)
    /\ UNCHANGED <<src, out, luaOut, luaIn, inCode, line, i, ip, stdout, calls, writes>>
    /\ UNCHANGED <<other, http>>

\* Drain without luaIn.Reset().
Drain_KeepsScript ==
    /\ pc = "doString" /\ ip >= Len(luaIn)
    /\ \E ok \in WriteResults :
         /\ writes' = Append(writes, [at |-> i, data |-> luaOut, ok |-> ok])
         /\ out' = IF ok THEN out \o luaOut ELSE out
    /\ luaOut' = <<>>
    /\ inCode' = FALSE
    /\ i' = i + 1
    /\ pc' = "scan"
    /\ L' = Returned(L)
    /\ UNCHANGED <<src, luaIn, line, ip, ret, stdout, calls>>
    /\ UNCHANGED <<other, http>>

\* Drain without luaOut.Reset().
Drain_KeepsOutput ==
    /\ pc = "doString" /\ ip >= Len(luaIn)
    /\ \E ok \in WriteResults :
         /\ writes' = Append(writes, [at |-> i, data |-> luaOut, ok |-> ok])
         /\ out' = IF ok THEN out \o luaOut ELSE out
    /\ luaIn' = <<>>
    /\ inCode' = FALSE
    /\ i' = i + 1
    /\ pc' = "scan"
    /\ L' = Returned(L)
    /\ UNCHANGED <<src, luaOut, line, ip, ret, stdout, calls>>
    /\ UNCHANGED <<other, http>>

\* lua.go:126-129: DoString returned nil at a close marker; the output is
\* written (the result of Write is dropped), both buffers are reset, and
\* the loop steps past the ">".
Drain ==
    /\ pc = "doString" /\ ip >= Len(luaIn)
    /\ \E ok \in WriteResults :
         /\ writes' = Append(writes, [at |-> i, data |-> luaOut, ok |-> ok])
         /\ out' = IF ok THEN out \o luaOut ELSE out
    /\ luaIn' = <<>>
    /\ luaOut' = <<>>
    /\ inCode' = FALSE
    /\ i' = i + 1
    /\ pc' = "scan"
    /\ L' = Returned(L)
    /\ UNCHANGED <<src, line, ip, ret, stdout, calls>>
    /\ UNCHANGED <<other, http>>

\* DrainAtEOF without the write of the output buffer.
DrainAtEOF_NoWrite ==
    /\ pc = "doStringEOF" /\ ip >= Len(luaIn)
    /\ pc' = "done"
    /\ ret' = Nil
    /\ L' = Returned(Closed)
    /\ UNCHANGED <<src, out, luaOut, luaIn, inCode, line, i, ip, stdout, calls,
                   writes>>
    /\ UNCHANGED <<other, http>>

\* lua.go:152-155: DoString returned nil at the end of the document.
DrainAtEOF ==
    /\ pc = "doStringEOF" /\ ip >= Len(luaIn)
    /\ \E ok \in WriteResults :
         /\ writes' = Append(writes, [at |-> i, data |-> luaOut, ok |-> ok])
         /\ out' = IF ok THEN out \o luaOut ELSE out
    /\ pc' = "done"
    /\ ret' = Nil
    /\ L' = Returned(Closed)
    /\ UNCHANGED <<src, luaOut, luaIn, inCode, line, i, ip, stdout, calls>>
    /\ UNCHANGED <<other, http>>

Next ==
    \/ NewState
    \/ OpenMarker
    \/ CopyByte
    \/ AppendCode
    \/ CloseMarker
    \/ FlushAtEOF
    \/ ReturnAtEOF
    \/ LuaPrint
    \/ LuaBlank
    \/ LuaFail
    \/ Drain
    \/ DrainAtEOF

Spec == Init /\ [][Next]_vars

-----------------------------------------------------------------------------
(* Two calls of Interpret in one process *)

\* The variables Interpret declares (lua.go:90-96, 111-113), with the
\* arguments and the records kept of the call: what a call owns.
Locals(id) ==
    [id |-> id, src |-> src, out |-> out, L |-> L, luaOut |-> luaOut,
     luaIn |-> luaIn, inCode |-> inCode, line |-> line, i |-> i, pc |-> pc,
     ip |-> ip, ret |-> ret, calls |-> calls, writes |-> writes]

\* A call before its first step.
NewCall(id, doc) ==
    [id |-> id, src |-> doc, out |-> <<>>,
     L |-> [state |-> "none", prints |-> 0, running |-> 0, n |-> 0],
     luaOut |-> <<>>, luaIn |-> <<>>, inCode |-> FALSE, line |-> 1, i |-> 0,
     pc |-> "start", ip |-> 0, ret |-> [kind |-> "none"], calls |-> <<>>,
     writes |-> <<>>]

\* The documents of the two calls.
TwoDocs ==
    { <<"p">> \o startSeq \o <<"p", "?", ">">> \o startSeq \o <<"p">>,
      startSeq \o <<NL, "p", "e", "?", ">", "p">>,
      startSeq \o <<"p", "?", ">", NL>>,
      <<"?", ">", "<", "?", "l", "u">> }

InitTwo ==
    /\ src \in TwoDocs
    /\ out = <<>>
    /\ L = [state |-> "none", prints |-> 0, running |-> 0, n |-> 0]
    /\ luaOut = <<>>
    /\ luaIn = <<>>
    /\ inCode = FALSE
    /\ line = 1
    /\ i = 0
    /\ pc = "start"
    /\ ip = 0
    /\ ret = [kind |-> "none"]
    /\ stdout = <<>>
    /\ calls = <<>>
    /\ writes = <<>>
    /\ \E doc \in TwoDocs : other = NewCall(2, doc)
    /\ http = NoRequest

\* Switch with the output buffer declared at package level: one luaOut for
\* both calls.
Switch_SharedOutputBuffer ==
    /\ other.id # 0 /\ other.pc # "done"
    /\ other' = Locals(3 - other.id)
    /\ src' = other.src /\ out' = other.out /\ L' = other.L
    /\ luaOut' = luaOut /\ luaIn' = other.luaIn
    /\ inCode' = other.inCode /\ line' = other.line /\ i' = other.i
    /\ pc' = other.pc /\ ip' = other.ip /\ ret' = other.ret
    /\ calls' = other.calls /\ writes' = other.writes
    /\ UNCHANGED <<stdout, http>>

\* The scheduler runs the other call: each call goes on with the variables
\* of its own activation of Interpret; the process's standard output is the
\* one thing both use.
Switch ==
    /\ other.id # 0 /\ other.pc # "done"
    /\ other' = Locals(3 - other.id)
    /\ src' = other.src /\ out' = other.out /\ L' = other.L
    /\ luaOut' = other.luaOut /\ luaIn' = other.luaIn
    /\ inCode' = other.inCode /\ line' = other.line /\ i' = other.i
    /\ pc' = other.pc /\ ip' = other.ip /\ ret' = other.ret
    /\ calls' = other.calls /\ writes' = other.writes
    /\ UNCHANGED <<stdout, http>>

NextTwo ==
    \/ Next
    \/ Switch

SpecTwo == InitTwo /\ [][NextTwo]_vars

\* Every statement of a script and every write of the sink returns, and the
\* loop of lua.go:113 runs on: no step that is enabled is put off for ever.
SpecFair == Init /\ [][Next]_vars /\ WF_vars(Next)

-----------------------------------------------------------------------------
(* The print binding on its own *)

\* Most arguments of one call of print, and most calls of one chunk.
MaxArgs == 2
MaxStatements == 3

\* The values printed: numbers of one and of two digits.
Values == {7, 10}

ArgLists == UNION { [1..k -> Values] : k \in 0..MaxArgs }

\* A document whose last region is being executed at its end.
PrintDoc == <<"p">> \o startSeq \o <<"p">>

\* Here the running chunk is kept as the calls of print it makes, each the
\* list of its arguments, in luaIn; ip counts the calls made.
InitPrint ==
    /\ src = PrintDoc
    /\ out = <<"p">>
    /\ L = [state |-> "open", prints |-> 1, running |-> 1, n |-> 0]
    /\ luaOut = <<>>
    /\ luaIn \in UNION { [1..m -> ArgLists] : m \in 0..MaxStatements }
    /\ inCode = TRUE
    /\ line = 1
    /\ i = Len(PrintDoc)
    /\ pc = "doStringEOF"
    /\ ip = 0
    /\ ret = [kind |-> "none"]
    /\ stdout = <<>>
    /\ calls = <<>>
    /\ writes = <<[at |-> 0, data |-> <<"p">>, ok |-> TRUE]>>
    /\ other = NoCall
    /\ http = NoRequest

\* lua.go:99-109: the script calls print with the values luaIn[ip + 1].
PrintCall ==
    /\ pc = "doStringEOF" /\ ip < Len(luaIn)
    /\ luaOut' = print(luaOut, [k \in 1..Len(luaIn[ip + 1]) |->
                                    String(luaIn[ip + 1][k])])
    /\ ip' = ip + 1
    /\ UNCHANGED <<src, out, L, luaIn, inCode, line, i, pc, ret, stdout, calls,
                   writes, other, http>>

NextPrint == PrintCall

SpecPrint == InitPrint /\ [][NextPrint]_vars

-----------------------------------------------------------------------------
(* ServeHTTP *)

\* Most rules of a handler.
MaxRules == 2

StatusOK == 200
StatusForbidden == 403
StatusNotFound == 404
StatusInternalServerError == 500

\* Base paths of rules and paths of requests.
BasePaths == { <<"/", "a">>, <<"/", "a", "/", "x">>, <<"/", "b">> }
Paths == { <<"/", "a", "/", "x">>, <<"/", "b">>, <<"/", "c">> }

\* middleware.Path(path).Matches(base), lua.go:44: base is a prefix of path.
Matches(path, base) ==
    /\ Len(base) <= Len(path)
    /\ SubSeq(path, 1, Len(base)) = base

\* The files the file system serves.
Files == TwoDocs \cup { <<"p">> \o startSeq \o <<"p", "e", "?", ">", "p">> }

\* How FileSys.Open (lua.go:57) and ioutil.ReadAll (lua.go:68) may end.
OpenResults == {"ok", "notexist", "permission", "failed"}
ReadResults == {"ok", "failed"}

\* The request when ServeHTTP is entered: k is the rule the loop is at, w what
\* this handler has written to the ResponseWriter, status what it returns.
InitHTTP ==
    /\ src = <<>>
    /\ out = <<>>
    /\ L = [state |-> "none", prints |-> 0, running |-> 0, n |-> 0]
    /\ luaOut = <<>>
    /\ luaIn = <<>>
    /\ inCode = FALSE
    /\ line = 1
    /\ i = 0
    /\ pc = "idle"
    /\ ip = 0
    /\ ret = [kind |-> "none"]
    /\ stdout = <<>>
    /\ calls = <<>>
    /\ writes = <<>>
    /\ other = NoCall
    /\ \E rules \in UNION { [1..m -> BasePaths] : m \in 0..MaxRules }, path \in Paths :
         http = [stage |-> "rules", rules |-> rules, path |-> path, k |-> 1,
                 open |-> "none", read |-> "none", w |-> <<>>, status |-> 0,
                 err |-> Nil, delegated |-> FALSE]

\* lua.go:44-46: the rule does not match; continue.
ServeSkipRule ==
    /\ http.stage = "rules" /\ http.k <= Len(http.rules)
    /\ ~Matches(http.path, http.rules[http.k])
    /\ http' = [http EXCEPT !.k = @ + 1]
    /\ UNCHANGED <<src, out, L, luaOut, luaIn, inCode, line, i, pc, ip, ret,
                   stdout, calls, writes, other>>

\* lua.go:84: no rule matched; the next handler serves the request.
ServeNext ==
    /\ http.stage = "rules" /\ http.k > Len(http.rules)
    /\ http' = [http EXCEPT !.stage = "done", !.delegated = TRUE]
    /\ UNCHANGED <<src, out, L, luaOut, luaIn, inCode, line, i, pc, ip, ret,
                   stdout, calls, writes, other>>

\* lua.go:57-66: the rule matches and the file is opened.
ServeOpen ==
    /\ http.stage = "rules" /\ http.k <= Len(http.rules)
    /\ Matches(http.path, http.rules[http.k])
    /\ \E res \in OpenResults :
         http' = IF res = "ok" THEN [http EXCEPT !.stage = "opened", !.open = res]
                 ELSE [http EXCEPT !.stage = "done", !.open = res,
                         !.status = IF res = "notexist" THEN StatusNotFound
                                    ELSE IF res = "permission" THEN StatusForbidden
                                    ELSE StatusInternalServerError,
                         !.err = IF res = "failed" THEN [kind |-> "open"] ELSE Nil]
    /\ UNCHANGED <<src, out, L, luaOut, luaIn, inCode, line, i, pc, ip, ret,
                   stdout, calls, writes, other>>

\* lua.go:68-74: the file is read and Interpret is called with its contents
\* and an empty buffer.
ServeRead ==
    /\ http.stage = "opened"
    /\ \E res \in ReadResults :
         IF res = "ok"
         THEN /\ http' = [http EXCEPT !.stage = "interpret", !.read = res]
              /\ src' \in Files
              /\ pc' = "start"
         ELSE /\ http' = [http EXCEPT !.stage = "done", !.read = res,
                            !.status = StatusInternalServerError,
                            !.err = [kind |-> "read"]]
              /\ UNCHANGED <<src, pc>>
    /\ UNCHANGED <<out, L, luaOut, luaIn, inCode, line, i, ip, ret, stdout,
                   calls, writes, other>>

\* ServeError writing what Interpret produced before it failed.
ServeError_WritesPartial ==
    /\ http.stage = "interpret" /\ pc = "done" /\ ret # Nil
    /\ http' = [http EXCEPT !.stage = "done", !.w = @ \o out,
                  !.status = StatusInternalServerError, !.err = ret]
    /\ UNCHANGED <<src, out, L, luaOut, luaIn, inCode, line, i, pc, ip, ret,
                   stdout, calls, writes, other>>

\* lua.go:74-76: Interpret returned an error.
ServeError ==
    /\ http.stage = "interpret" /\ pc = "done" /\ ret # Nil
    /\ http' = [http EXCEPT !.stage = "done",
                  !.status = StatusInternalServerError, !.err = ret]
    /\ UNCHANGED <<src, out, L, luaOut, luaIn, inCode, line, i, pc, ip, ret,
                   stdout, calls, writes, other>>

\* lua.go:79-81: the buffer is written to the response (the result of Write
\* is dropped) and 200 is returned.
ServeOK ==
    /\ http.stage = "interpret" /\ pc = "done" /\ ret = Nil
    /\ \E ok \in BOOLEAN :
         http' = [http EXCEPT !.stage = "done", !.status = StatusOK,
                    !.w = IF ok THEN @ \o out ELSE @]
    /\ UNCHANGED <<src, out, L, luaOut, luaIn, inCode, line, i, pc, ip, ret,
                   stdout, calls, writes, other>>

NextHTTP ==
    \/ ServeSkipRule
    \/ ServeNext
    \/ ServeOpen
    \/ ServeRead
    \/ Next
    \/ ServeError
    \/ ServeOK

SpecHTTP == InitHTTP /\ [][NextHTTP]_vars

TypeOK ==
    /\ i \in 0..Len(src)
    /\ Executing => ip \in 0..Len(luaIn)
    /\ pc \in {"start", "scan", "doString", "doStringEOF", "done"}

-----------------------------------------------------------------------------
(* What the specification says of a document, for the properties below *)

endSeq == <<"?", ">">>

\* The marker m lies at offset pos of doc, fully inside it.
MarkerAt(doc, pos, m) ==
    /\ pos + Len(m) <= Len(doc)
    /\ \A k \in 1..Len(m) : doc[pos + k] = m[k]

NoOpenMarker(doc) == \A pos \in 0..Len(doc) : ~MarkerAt(doc, pos, startSeq)

CountP(chunk) == Cardinality({ k \in 1..Len(chunk) : chunk[k] = "p" })

\* What a chunk without "e" prints in a session whose global n is n.
RECURSIVE RefPrinted(_, _)
RefPrinted(chunk, n) ==
    IF chunk = <<>> THEN <<>>
    ELSE IF Head(chunk) = "p"
         THEN String(n + 1) \o << NL >> \o RefPrinted(Tail(chunk), n + 1)
         ELSE RefPrinted(Tail(chunk), n)

\* The transition table of the specification read as a function of the
\* document: the output of a run in which every dispatch succeeds, the
\* closed regions (script and offset of the close marker), and the mode and
\* pending script at the end of the document.  from is the offset of the
\* first byte of the pending script.
RECURSIVE RefScan(_, _, _, _, _, _)
RefScan(doc, pos, mode, from, n, r) ==
    IF pos >= Len(doc)
    THEN LET pending == IF mode = "InScript" THEN SubSeq(doc, from + 1, Len(doc))
                        ELSE <<>>
         IN  [out |-> r.out \o RefPrinted(pending, n), regions |-> r.regions,
              mode |-> mode, pending |-> pending]
    ELSE IF mode = "Literal"
    THEN IF MarkerAt(doc, pos, startSeq)
         THEN RefScan(doc, pos + 5, "InScript", pos + 5, n, r)
         ELSE RefScan(doc, pos + 1, "Literal", 0, n,
                      [r EXCEPT !.out = Append(@, doc[pos + 1])])
    ELSE IF MarkerAt(doc, pos, endSeq)
         THEN LET chunk == SubSeq(doc, from + 1, pos)
              IN  RefScan(doc, pos + 2, "Literal", 0, n + CountP(chunk),
                          [out |-> r.out \o RefPrinted(chunk, n),
                           regions |-> Append(r.regions,
                                              [chunk |-> chunk, at |-> pos])])
         ELSE RefScan(doc, pos + 1, "InScript", from, n, r)

Ref(doc) == RefScan(doc, 0, "Literal", 0, 0, [out |-> <<>>, regions |-> <<>>])

\* The closed regions alone, by the same table: Ref(doc).regions.
RECURSIVE RegionsFrom(_, _, _, _)
RegionsFrom(doc, pos, inScript, from) ==
    IF pos >= Len(doc) THEN <<>>
    ELSE IF ~inScript
    THEN IF doc[pos + 1] = "<" /\ MarkerAt(doc, pos, startSeq)
         THEN RegionsFrom(doc, pos + 5, TRUE, pos + 5)
         ELSE RegionsFrom(doc, pos + 1, FALSE, 0)
    ELSE IF doc[pos + 1] = "?" /\ MarkerAt(doc, pos, endSeq)
         THEN <<[chunk |-> SubSeq(doc, from + 1, pos), at |-> pos]>>
                 \o RegionsFrom(doc, pos + 2, FALSE, 0)
         ELSE RegionsFrom(doc, pos + 1, TRUE, from)

Regions(doc) == RegionsFrom(doc, 0, FALSE, 0)

AllWritesOk == \A k \in 1..Len(writes) : writes[k].ok

Last(s) == s[Len(s)]

-----------------------------------------------------------------------------
(* Properties *)

\* C1: when the writer accepts every write and every dispatch succeeds,
\* Interpret returns nil and the writer holds the literal bytes of the
\* document with every script region, markers included, replaced by what
\* the region printed.
C1_OutputIsSubstitution ==
    (pc = "done" /\ AllWritesOk /\ ret.kind # "lua")
        => (ret = Nil /\ out = Ref(src).out)

\* C2: a document without an open marker is never dispatched, and the writer
\* receives it byte for byte: at every step the bytes written are the bytes
\* scanned, and all of the document when Interpret returns nil.
C2_NoMarkerIsIdentity ==
    NoOpenMarker(src) =>
        /\ calls = <<>>
        /\ ~inCode
        /\ out = SubSeq(src, 1, i)
        /\ (pc = "done" /\ ret = Nil) => out = src

C2_Witness ==
    /\ pc = "done" /\ ret = Nil
    /\ NoOpenMarker(src)
    /\ \E pos \in 0..Len(src) : MarkerAt(src, pos, <<"<", "?", "l", "u">>)
    /\ \E pos \in 0..Len(src) : MarkerAt(src, pos, endSeq)
    /\ out = src

\* C9: isStart(pos, doc) is true exactly when the five bytes at pos are
\* <?lua and lie inside the document (pos + 5 <= len(doc)).
C9_IsStartIffMarkerInside ==
    pc # "start" =>
        \A pos \in 0..Len(src) : isStart(pos, src) <=> MarkerAt(src, pos, startSeq)

\* The call that failed or is running: offsets of the open marker of its
\* region and of the statement the session is at.
OpenOf(c) == c.at - Len(c.chunk) - 5
StatementAt(c) == c.at - Len(c.chunk) + ip

\* The line of the document on which offset pos lies.
LineOf(doc, pos) == 1 + Cardinality({ k \in 1..pos : doc[k] = NL })

\* The bytes the writer accepted, from the record of the writes.
RECURSIVE AcceptedFrom(_, _)
AcceptedFrom(ws, k) ==
    IF k > Len(ws) THEN <<>>
    ELSE (IF ws[k].ok THEN ws[k].data ELSE <<>>) \o AcceptedFrom(ws, k + 1)

Accepted(ws) == AcceptedFrom(ws, 1)

\* The value of the session's global n when call j began: every earlier
\* chunk ran to its end.
RECURSIVE CountBefore(_, _)
CountBefore(cs, j) ==
    IF j <= 1 THEN 0 ELSE CountBefore(cs, j - 1) + CountP(cs[j - 1].chunk)

\* C3: a failed dispatch ends the call at once with an error that carries
\* the line counter and the interpreter's message; nothing past the region
\* is scanned, and the writer holds what was written before the region
\* (earlier literal bytes, earlier regions' output) and nothing the failing
\* region printed.
C3_FailureAborts ==
    ret.kind = "lua" =>
        /\ pc = "done"
        /\ ret = LuaError(line, ErrMsg)
        /\ calls # <<>>
        /\ LET c == Last(calls)
           IN  /\ c.chunk[ip + 1] = "e"
               /\ Len(calls) = Len(Ref(SubSeq(src, 1, OpenOf(c))).regions) + 1
               /\ i = IF c.at < Len(src) THEN c.at + 1 ELSE Len(src)
               /\ \A k \in 1..Len(writes) : writes[k].at < OpenOf(c)
               /\ out = Accepted(writes)
               /\ AllWritesOk => out = Ref(SubSeq(src, 1, OpenOf(c))).out

C3_Witness ==
    /\ ret.kind = "lua"
    /\ luaOut # <<>>
    /\ Len(calls) = 2
    /\ out # <<>>
    /\ AllWritesOk

\* C4: when a region that spans several lines fails, the line in the error
\* is the line of the document on which the failing statement lies.
C4_LineOfFailingStatement ==
    (ret.kind = "lua" /\ \E k \in 1..Len(Last(calls).chunk) : Last(calls).chunk[k] = NL)
        => ret.line = LineOf(src, StatementAt(Last(calls)))

\* C5: an error of any write to the destination writer (a literal byte, the
\* output after a close marker, the output at the end of the document) is
\* returned at once: the failed write is the last thing Interpret does.
C5_WriteErrorAborts ==
    \A k \in 1..Len(writes) :
        ~writes[k].ok => (k = Len(writes) /\ pc = "done" /\ ret = WriteError)

\* C6: the dispatches are the document's closed regions, left to right: each
\* dispatch at a close marker runs the script of the region at that place,
\* a call that returns nil has made as many of them as the document has
\* closed regions, and the writes that fill the writer are made in the order
\* of the document, the output of a region at the place of its close marker.
C6_DispatchesInDocumentOrder ==
    LET regs == Regions(src)
        closed == { k \in 1..Len(calls) : calls[k].at < Len(src) }
    IN  /\ \A k \in closed :
              /\ k <= Len(regs)
              /\ calls[k].chunk = regs[k].chunk
              /\ calls[k].at = regs[k].at
        /\ \A k \in 1..Len(calls) : k \in closed \/ k = Len(calls)
        /\ \A k \in 1..Len(calls) - 1 : calls[k].at < calls[k + 1].at
        /\ (pc = "done" /\ ret = Nil) => Cardinality(closed) = Len(regs)
        /\ \A k \in 1..Len(writes) - 1 : writes[k].at < writes[k + 1].at
        /\ out = Accepted(writes)
        /\ \A k \in 1..Len(writes) :
              \/ /\ writes[k].at < Len(src)
                 /\ writes[k].data = << src[writes[k].at + 1] >>
                 /\ \A j \in 1..Len(regs) :
                       writes[k].at \notin OpenOf(regs[j])..(regs[j].at + 1)
              \/ \E j \in 1..Len(calls) :
                    /\ writes[k].at = IF j \in closed THEN calls[j].at + 1
                                      ELSE Len(src)
                    /\ writes[k].data =
                         RefPrinted(calls[j].chunk, CountBefore(calls, j))

C6_Witness ==
    /\ pc = "done" /\ ret = Nil /\ AllWritesOk
    /\ Len(Ref(src).regions) = 2
    /\ Len(calls) = 2
    /\ Len(writes) = 3
    /\ Len(writes[1].data) > 1
    /\ Len(writes[2].data) = 1
    /\ Len(writes[3].data) > 1

\* C7: at most one dispatch runs at a time, and when a dispatch begins the
\* output buffer is empty: while a chunk runs the buffer holds what that
\* chunk has printed so far and nothing of an earlier region.
C7_OutputBufferDrained ==
    /\ L.running \in {0, 1}
    /\ L.running = 1 <=> Executing
    /\ (Executing /\ ip = 0) => luaOut = <<>>
    /\ Executing =>
          luaOut = RefPrinted(SubSeq(luaIn, 1, ip),
                              L.n - CountP(SubSeq(luaIn, 1, ip)))
    /\ pc = "scan" => luaOut = <<>>

C7_Witness ==
    /\ Executing /\ ip = 0
    /\ Len(calls) = 2
    /\ L.n > 0
    /\ out # <<>>
    /\ luaOut = <<>>

\* C8: a document that ends inside a script whose pending bytes are not
\* empty has them dispatched once, after the scan, and their output written
\* when the dispatch succeeds; the only error of such a call is the
\* script's own.  A document that ends with an open marker and nothing
\* after it gets no dispatch at the end of the document.
C8_LenientEndOfDocument ==
    LET atEOF == { k \in 1..Len(calls) : calls[k].at = Len(src) }
    IN  /\ (pc \in {"doStringEOF", "done"} /\ i = Len(src)
              /\ inCode /\ luaIn # <<>> /\ ret.kind # "write")
            => /\ atEOF = { Len(calls) }
               /\ Last(calls).chunk = luaIn
               /\ luaIn = Ref(src).pending
               /\ ret.kind = "lua" => luaIn[ip + 1] = "e"
               /\ (pc = "done" /\ ret.kind # "lua")
                    => /\ ret = Nil
                       /\ writes # <<>>
                       /\ Last(writes).at = Len(src)
                       /\ Last(writes).data = luaOut
                       /\ luaOut = RefPrinted(luaIn, L.n - CountP(luaIn))
                       /\ Last(writes).ok =>
                            SubSeq(out, Len(out) - Len(luaOut) + 1, Len(out)) = luaOut
        /\ atEOF # {} => Ref(src).pending # <<>>
        /\ (pc = "done" /\ ret = Nil /\ atEOF = {}) => Ref(src).pending = <<>>

C8_Witness ==
    /\ pc = "done" /\ ret = Nil /\ AllWritesOk
    /\ inCode /\ luaIn # <<>>
    /\ luaOut # <<>>
    /\ Len(calls) = 2
    /\ Last(calls).at = Len(src)

\* C10: Interpret writes nothing to the standard output of the process.
C10_NoLogging == stdout = <<>>


\* C11: a call has no session before it starts, one open session with one
\* print binding from then until it returns, and a closed session once it
\* has returned, whatever it returned; every dispatch runs in that session:
\* its global n counts the prints of all the dispatches made so far.
C11_OneSessionClosedOnReturn ==
    /\ pc = "start" => (L.state = "none" /\ L.prints = 0 /\ calls = <<>>)
    /\ pc \in {"scan", "doString", "doStringEOF"} =>
          (L.state = "open" /\ L.prints = 1)
    /\ pc = "done" =>
          (L.state = "closed" /\ L.prints = 1 /\ L.running = 0
             /\ ret.kind \in {"nil", "lua", "write"})
    /\ calls # <<>> =>
          L.n = CountBefore(calls, Len(calls))
                  + (IF pc = "scan" THEN CountP(Last(calls).chunk)
                     ELSE CountP(SubSeq(Last(calls).chunk, 1, ip)))

C11_Witness ==
    /\ pc = "done" /\ ret.kind = "lua"
    /\ L.state = "closed"
    /\ Len(calls) = 2
    /\ Last(calls).at = Len(src)
    /\ L.n = 2


\* What one call of Interpret on doc returns and leaves in a writer that
\* accepts every write, when nothing else runs: the loop of lua.go:113-155
\* as a function of the document (k the cursor, n the session's global).
RECURSIVE AloneScan(_, _, _, _, _, _, _)
AloneScan(doc, k, code, pend, ln, n, o) ==
    LET fails == \E m \in 1..Len(pend) : pend[m] = "e"
    IN  IF k >= Len(doc)
        THEN IF code /\ pend # <<>>
             THEN IF fails THEN [out |-> o, ret |-> LuaError(ln, ErrMsg)]
                  ELSE [out |-> o \o RefPrinted(pend, n), ret |-> Nil]
             ELSE [out |-> o, ret |-> Nil]
        ELSE LET ln2 == IF doc[k + 1] = NL THEN ln + 1 ELSE ln
             IN  IF code
                 THEN IF isEnd(k, doc)
                      THEN IF fails THEN [out |-> o, ret |-> LuaError(ln2, ErrMsg)]
                           ELSE AloneScan(doc, k + 2, FALSE, <<>>, ln2,
                                          n + CountP(pend), o \o RefPrinted(pend, n))
                      ELSE AloneScan(doc, k + 1, TRUE, Append(pend, doc[k + 1]),
                                     ln2, n, o)
                 ELSE IF isStart(k, doc)
                      THEN AloneScan(doc, k + 5, TRUE, pend, ln2, n, o)
                      ELSE AloneScan(doc, k + 1, FALSE, pend, ln2, n,
                                     Append(o, doc[k + 1]))

Alone(doc) == AloneScan(doc, 0, FALSE, <<>>, 1, 0, <<>>)

\* A call's state holds nothing of another call: its buffers and its
\* session follow from its own document and its own steps, and when it has
\* returned from a writer that accepted every write, its output and its
\* return value are those of the call run alone.
OwnStateOnly(c) ==
    /\ c.out = Accepted(c.writes)
    /\ c.calls # <<>> =>
          c.L.n = CountBefore(c.calls, Len(c.calls))
                    + (IF c.pc = "scan" THEN CountP(Last(c.calls).chunk)
                       ELSE CountP(SubSeq(Last(c.calls).chunk, 1, c.ip)))
    /\ c.pc \in {"doString", "doStringEOF"} =>
          /\ c.luaIn = Last(c.calls).chunk
          /\ c.luaOut = RefPrinted(SubSeq(c.luaIn, 1, c.ip),
                                   c.L.n - CountP(SubSeq(c.luaIn, 1, c.ip)))
    /\ (c.pc = "scan" /\ c.inCode) =>
          c.luaIn = SubSeq(c.src, c.i - Len(c.luaIn) + 1, c.i)
    /\ (c.pc = "done" /\ \A k \in 1..Len(c.writes) : c.writes[k].ok) =>
          (c.out = Alone(c.src).out /\ c.ret = Alone(c.src).ret)

\* C12: two calls that run concurrently on their own documents and writers
\* do not touch each other's state: under every interleaving of their steps
\* each call's output and return value are those of the call run alone.
C12_CallsAreIsolated ==
    other.id # 0 => (OwnStateOnly(Locals(3 - other.id)) /\ OwnStateOnly(other))

C12_Witness ==
    /\ other.id = 1 /\ other.pc = "done" /\ other.ret = Nil
    /\ pc = "done" /\ ret.kind = "lua"
    /\ Len(other.calls) = 2 /\ Len(calls) = 1
    /\ \A k \in 1..Len(other.writes) : other.writes[k].ok
    /\ Len(stdout) = 1
    /\ other.out # <<>>
    /\ luaOut # <<>>


\* The textual forms of the values, one space between neighbours.
RECURSIVE SpaceSeparated(_)
SpaceSeparated(vals) ==
    IF vals = <<>> THEN <<>>
    ELSE IF Len(vals) = 1 THEN String(vals[1])
    ELSE String(vals[1]) \o <<" ">> \o SpaceSeparated(Tail(vals))

\* One line for each call of print.
RECURSIVE RefLines(_)
RefLines(stmts) ==
    IF stmts = <<>> THEN <<>>
    ELSE SpaceSeparated(Head(stmts)) \o <<NL>> \o RefLines(Tail(stmts))

CountOf(b, s) == Cardinality({ k \in 1..Len(s) : s[k] = b })

\* C13: each call of print appends the textual forms of its values in
\* order, one space between them and one newline after them (only the
\* newline for no values); the calls of one execution append in call order,
\* none clears the buffer, and document and Result Stream stay as they were.
C13_PrintAppendsOneLine ==
    /\ luaOut = RefLines(SubSeq(luaIn, 1, ip))
    /\ CountOf(NL, luaOut) = ip
    /\ src = PrintDoc
    /\ out = <<"p">>

C13_Witness ==
    /\ ip = 3
    /\ luaIn[1] = <<10, 7>>
    /\ luaIn[2] = <<>>
    /\ luaIn[3] = <<7>>
    /\ luaOut = <<"1", "0", " ", "7", NL, NL, "7", NL>>


\* The offsets the scan has tested so far, as a count of document bytes.
Scanned == IF ret = WriteError THEN i + 1 ELSE i

C14_LineIsCount ==
    /\ pc # "start" => line = LineOf(src, Scanned)
    /\ \A j \in 1..Len(calls) :
         calls[j].line = LineOf(src, IF calls[j].at < Len(src)
                                     THEN calls[j].at + 1 ELSE Len(src))
    /\ ret.kind = "lua" => ret.line = Last(calls).line

\* C14: while scanning, the line counter is 1 plus the number of newline
\* bytes at the offsets up to and including the cursor, in literal text and
\* in script regions alike; it never decreases; a failing dispatch reports
\* the counter's value at the close marker, or at the end of the document.
C14_LineCounter == []C14_LineIsCount /\ [][line' >= line]_vars

C14_Witness ==
    /\ pc = "done" /\ ret.kind = "lua" /\ ret.line = 3
    /\ CountOf(NL, Last(calls).chunk) = 1
    /\ CountOf(NL, out) = 1


\* The chunk of the dispatch c is the document from the end of its open
\* marker to the first close marker after it, or to the end of the document.
BetweenMarkers(c, floor) ==
    LET o == c.at - Len(c.chunk) - Len(startSeq) IN
      /\ o >= floor
      /\ MarkerAt(src, o, startSeq)
      /\ c.chunk = SubSeq(src, o + Len(startSeq) + 1, c.at)
      /\ \A q \in (o + Len(startSeq))..(c.at - 1) : ~MarkerAt(src, q, endSeq)
      /\ IF c.at < Len(src) THEN MarkerAt(src, c.at, endSeq) ELSE c.at = Len(src)

\* C15: the script of each dispatch is exactly the document bytes between
\* the end of the region's open marker and the start of its close marker
\* (the end of the document for an unterminated region); the pending script
\* is empty whenever the scanner is in literal text, so a region starts from
\* an empty buffer and holds no byte of an earlier region.
C15_ScriptIsRegionBytes ==
    /\ \A j \in 1..Len(calls) :
         BetweenMarkers(calls[j], IF j = 1 THEN 0 ELSE calls[j - 1].at + Len(endSeq))
    /\ (pc = "scan" /\ ~inCode) => luaIn = <<>>
    /\ (pc = "scan" /\ inCode) =>
         /\ luaIn = SubSeq(src, i - Len(luaIn) + 1, i)
         /\ MarkerAt(src, i - Len(luaIn) - Len(startSeq), startSeq)

C15_Witness ==
    /\ pc = "done" /\ Len(calls) = 2
    /\ calls[1].chunk = <<"p">>
    /\ calls[2].chunk = <<"e">>
    /\ calls[2].at = Len(src)


\* The last t bytes of s.
Tail_(s, t) == SubSeq(s, Len(s) - t + 1, Len(s))

\* The document ends in the first t bytes of the open marker and no more.
EndsInTruncatedOpen(t) ==
    /\ t <= Len(src)
    /\ Tail_(src, t) = SubSeq(startSeq, 1, t)

\* C16: a marker cut off by the end of the document is not recognized (the
\* document does not change: its offsets are tested when the call starts).
\* isEnd(pos, src) holds exactly when "?" and ">" lie at pos and pos + 1
\* inside the document, and isStart only where the whole open marker lies;
\* a call that ends in literal text has copied the bytes of a truncated open
\* marker to the output; a "?" that is the last byte of the document, read
\* inside a script region, is in the pending script and in the script of
\* the dispatch at the end of the document.
C16_TruncatedMarkers ==
    /\ pc = "start" =>
          /\ \A pos \in 0..Len(src) : isEnd(pos, src) <=> MarkerAt(src, pos, endSeq)
          /\ \A pos \in 0..Len(src) : isStart(pos, src) => MarkerAt(src, pos, startSeq)
    /\ (pc = "done" /\ ret = Nil /\ ~inCode) =>
         \A t \in 1..(Len(startSeq) - 1) :
            EndsInTruncatedOpen(t) => (Len(out) >= t /\ Tail_(out, t) = Tail_(src, t))
    /\ (pc = "scan" /\ i >= Len(src) /\ inCode /\ src[Len(src)] = "?") =>
         (luaIn # <<>> /\ Last(luaIn) = "?")
    /\ (pc = "done" /\ ret = Nil /\ inCode /\ src[Len(src)] = "?") =>
         /\ calls # <<>>
         /\ Last(calls).at = Len(src)
         /\ Last(Last(calls).chunk) = "?"

C16_Witness ==
    /\ pc = "done" /\ ret = Nil /\ inCode
    /\ src[Len(src)] = "?"
    /\ Len(calls) = 1
    /\ calls[1].chunk = <<"p", "?">>
    /\ calls[1].at = Len(src)


\* A sequence m occurs in s.
Occurs(m, s) == \E pos \in 0..Len(s) : MarkerAt(s, pos, m)

\* One step of the scanner, by mode.
C17_Step ==
    /\ (pc = "scan" /\ i < Len(src) /\ inCode /\ ~MarkerAt(src, i, endSeq)) =>
          /\ luaIn' = Append(luaIn, src[i + 1])
          /\ inCode' /\ pc' = "scan" /\ i' = i + 1
          /\ out' = out /\ calls' = calls
    /\ (pc = "scan" /\ i < Len(src) /\ ~inCode /\ src[i + 1] # "<") =>
          /\ ~inCode' /\ luaIn' = luaIn /\ calls' = calls
          /\ \/ out' = Append(out, src[i + 1]) /\ i' = i + 1 /\ pc' = "scan"
             \/ out' = out /\ ret' = WriteError /\ pc' = "done"
    /\ (~inCode /\ inCode') =>
          (pc = "scan" /\ MarkerAt(src, i, startSeq) /\ i' = i + Len(startSeq))
    /\ (inCode /\ ~inCode') =>
          (pc = "doString" /\ MarkerAt(src, i - 1, endSeq) /\ i' = i + 1)

\* C17: markers are recognized by mode. Inside a script region the bytes of
\* an open marker are appended to the pending script and the region goes on;
\* in literal text the bytes of a close marker are copied to the output;
\* the mode changes only from literal to script at an open marker and from
\* script to literal at a close marker.
C17_RecognitionByMode == [][C17_Step]_vars

C17_Witness ==
    /\ pc = "done" /\ ret = Nil /\ ~inCode
    /\ Len(calls) = 1
    /\ Occurs(startSeq, calls[1].chunk)
    /\ Occurs(endSeq, out)


\* The steps of the cursor.
C18_Step ==
    /\ i' >= i
    /\ (pc = "scan" /\ i < Len(src)) =>
          \/ i' = i + 1
          \/ i' = i + 5 /\ ~inCode /\ inCode'
          \/ i' = i /\ pc' = "done" /\ ret' = WriteError
    /\ (pc = "scan" /\ pc' = "doString") => MarkerAt(src, i, endSeq)
    /\ (pc = "doString" /\ pc' = "scan") => i' = Last(calls).at + 2
    /\ (pc = "scan" /\ i >= Len(src)) => (i' = i /\ pc' \in {"done", "doStringEOF"})
    /\ pc = "doStringEOF" => (i' = i /\ pc' \in {"doStringEOF", "done"})

\* The cursor stays in the document; the scan ends at its end; one flush.
C18_End ==
    /\ i <= Len(src)
    /\ (pc = "done" /\ ret = Nil) => i = Len(src)
    /\ pc = "doStringEOF" => i = Len(src)
    /\ Cardinality({ j \in 1..Len(calls) : calls[j].at = Len(src) }) <= 1

\* C18: when every dispatch and every write returns, Interpret returns for
\* every document: each step of the scan moves the cursor forward, by 1,
\* by 2 over a close marker and by 5 over an open marker; the scan ends
\* when the cursor is at the end of the document; at most one dispatch
\* follows it.
C18_Terminates == <>(pc = "done") /\ [][C18_Step]_vars /\ []C18_End

C18_Witness ==
    /\ pc = "done" /\ ret = Nil /\ i = Len(src)
    /\ Len(calls) = 2
    /\ calls[1].at < Len(src)
    /\ calls[2].at = Len(src)
    /\ Occurs(startSeq, src) /\ Len(out) > 2


\* C19: when the scan is at the end of the document inside a script region
\* the pending script is not empty (an open marker is recognized only with
\* a byte after it), so a call that returns nil from inside a region has
\* made the dispatch at the end of the document.
C19_PendingAtEndNotEmpty ==
    /\ (pc = "scan" /\ i >= Len(src) /\ inCode) => luaIn # <<>>
    /\ pc = "start" =>
          \A pos \in 0..Len(src) : isStart(pos, src) => pos + Len(startSeq) < Len(src)
    /\ (pc = "done" /\ ret = Nil /\ inCode) =>
          (calls # <<>> /\ Last(calls).at = Len(src) /\ Last(calls).chunk = luaIn)

C19_Witness ==
    /\ pc = "scan" /\ i = Len(src) /\ inCode
    /\ Len(luaIn) = 1
    /\ MarkerAt(src, Len(src) - Len(startSeq) - 1, startSeq)


\* The rules of the handler that match the path of the request.
Matching == { k \in 1..Len(http.rules) : Matches(http.path, http.rules[k]) }

\* The handler has settled which rule serves the request, or that none does.
Settled == http.stage \in {"opened", "interpret", "done"}

\* C20: ServeHTTP serves a request with the first rule whose base path
\* matches and hands it to the next handler only when none matches. It
\* writes to the response only after Interpret has returned nil: when the
\* script fails, or the file cannot be opened or read, the response is empty
\* (no part of the output produced before the failure) and the status is
\* 500, 404 or 403, never 200.
C20_ServeHTTP ==
    /\ (Settled /\ ~http.delegated) =>
          (http.k \in Matching /\ \A k \in Matching : http.k <= k)
    /\ (Settled /\ http.delegated) => (Matching = {} /\ pc = "idle" /\ http.w = <<>>)
    /\ (http.stage = "done" /\ Matching = {}) => http.delegated
    /\ http.w # <<>> =>
          (pc = "done" /\ ret = Nil /\ http.w = out /\ http.status = StatusOK)
    /\ (http.stage = "done" /\ ~http.delegated) =>
          /\ http.status = StatusOK <=>
                (http.open = "ok" /\ http.read = "ok" /\ pc = "done" /\ ret = Nil)
          /\ http.open = "notexist" => http.status = StatusNotFound
          /\ http.open = "permission" => http.status = StatusForbidden
          /\ http.open = "failed" => http.status = StatusInternalServerError
          /\ http.read = "failed" => http.status = StatusInternalServerError
          /\ ret.kind = "lua" => http.status = StatusInternalServerError
          /\ http.status \in {StatusOK, StatusNotFound, StatusForbidden,
                              StatusInternalServerError}
          /\ http.status # StatusOK => http.w = <<>>

C20_Witness ==
    /\ http.stage = "done" /\ http.status = StatusInternalServerError
    /\ ret.kind = "lua" /\ out # <<>> /\ http.w = <<>>
    /\ http.k = 2 /\ ~Matches(http.path, http.rules[1])

=============================================================================
